---- MODULE Spec2Model ----
(***************************************************************************)
(* Save synchronisation of the Starfield quicksave utility.                *)
(*                                                                         *)
(* Two threads share the QuicksaveUtility fields: the main loop            *)
(* (_main_loop / save_on_interval) and the watchdog observer thread that   *)
(* runs SaveFileHandler.on_moved / new_game_save_detected.  Each thread is *)
(* a small program counter machine; the environment is the clock, the      *)
(* game (process state and files it writes) and the configuration file.    *)
(*                                                                         *)
(* Time is an integer clock; quicksave_interval is scaled to               *)
(* QuicksaveInterval clock units.  None is NoTime for a datetime and       *)
(* NoPath for a path.                                                      *)
(*                                                                         *)
(* Spec is the running utility.  SpecCalls applies identify_save_type and  *)
(* _get_next_save_id on their own to file names and directory listings.    *)
(* SpecMonitor is the main loop thread on its own, with the game's process *)
(* state and ProcessMonitor's fields.  SpecWatchers is the two watchdog     *)
(* observer threads on their own: save events and configuration reloads.   *)
(***************************************************************************)
EXTENDS Integers, Sequences, FiniteSets, TLC

\* ---------------------------------------------------------------- bounds
MaxTime == 2
MaxWrites == 2
MaxQueue == 1
QuicksaveInterval == 2
MaxFiles == 3
MaxDepth == 4
Horizon == 7
ReminderMax == 3
MaxCopies == 2

\* ------------------------------------------------------------ file names
\* A path is a sequence of tokens; a token is a literal piece of text or a
\* decimal number (s = "#", n = its value).
Tok(s, n) == [s |-> s, n |-> n]
Lit(s) == Tok(s, 0)
Num(n) == Tok("#", n)

NoTime == -1
NoPath == << >>

Hex8 == {"_0A1B2C3D", "_4E5F6A7B"}

QS_0 == << Lit("Quicksave0"), Lit("_0A1B2C3D"), Lit(".sfs") >>
AS_1 == << Lit("Autosave"), Num(1), Lit("_4E5F6A7B"), Lit(".sfs") >>
MS_7 == << Lit("Save"), Num(7), Lit("_0A1B2C3D"), Lit(".sfs") >>
TMP_1 == << Lit("Quicksave0"), Lit("_0A1B2C3D"), Lit(".tmp") >>

\* the files the game writes into the save directory
GamePaths == {QS_0, AS_1, MS_7}

Contains(path, s) == \E i \in DOMAIN path : path[i].s = s

EndsWith(path, s) == Len(path) > 0 /\ path[Len(path)].s = s

\* ------------------------------------------------------------- save kind
QUICKSAVE == "quicksave"
AUTOSAVE == "autosave"
MANUAL == "manual save"

\* mutant: every name that is not the quicksave slot counts as an autosave
identify_save_type_NoManual(save_path) ==
    IF Contains(save_path, "Quicksave0") THEN QUICKSAVE ELSE AUTOSAVE

\* mutant: only the quicksave slot is told apart
identify_save_type_QuicksaveOnly(save_path) ==
    IF Contains(save_path, "Quicksave0") THEN QUICKSAVE ELSE MANUAL

identify_save_type(save_path) ==
    IF Contains(save_path, "Quicksave0") THEN QUICKSAVE
    ELSE IF Contains(save_path, "Autosave") THEN AUTOSAVE
    ELSE MANUAL

\* ---------------------------------------------------------- id allocation
SetMax(S) == CHOOSE m \in S : \A x \in S : x <= m

RECURSIVE Digits(_)
Digits(n) == IF n < 10 THEN 1 ELSE 1 + Digits(n \div 10)

RECURSIVE Pow10(_)
Pow10(k) == IF k = 0 THEN 1 ELSE 10 * Pow10(k - 1)

\* mutant: no id is taken to be all nines
AllNines_Never(n) == FALSE

\* str(n) == "9" * len(str(n))
AllNines(n) == n = Pow10(Digits(n)) - 1

\* re.match(r"Save(\d+)_[A-F0-9]{8}", basename)
MatchesNumberedSave(path) ==
    /\ Len(path) >= 3
    /\ path[1].s = "Save"
    /\ path[2].s = "#"
    /\ path[3].s \in Hex8

\* mutant: every name that starts with Save counts, whatever follows
SaveIds_AnySaveName(save_files) ==
    {p[2].n : p \in {q \in save_files : Len(q) >= 2 /\ q[1].s = "Save"}}

SaveIds(save_files) == {p[2].n : p \in {q \in save_files : MatchesNumberedSave(q)}}

_get_next_save_id(save_files) ==
    IF SaveIds(save_files) = {} THEN << 0, 1 >>
    ELSE LET highest_save_id == SetMax(SaveIds(save_files))
             next_save_id == highest_save_id + 1
             expected_digits == Digits(highest_save_id)
         IN  IF Digits(next_save_id) > expected_digits /\ ~AllNines(highest_save_id)
             THEN << highest_save_id, Pow10(expected_digits - 1) >>
             ELSE << highest_save_id, next_save_id >>

\* re.sub(r"^(Quicksave0|Autosave\d+)", f"Save{next_save_id}", source_filename)
NewFilename(source, next_save_id) ==
    IF Len(source) >= 1 /\ source[1].s = "Quicksave0"
    THEN << Lit("Save"), Num(next_save_id) >> \o SubSeq(source, 2, Len(source))
    ELSE IF Len(source) >= 2 /\ source[1].s = "Autosave" /\ source[2].s = "#"
    THEN << Lit("Save"), Num(next_save_id) >> \o SubSeq(source, 3, Len(source))
    ELSE source

\* the id in a numbered save's name (0 for any other name)
SaveIdOf(path) == IF MatchesNumberedSave(path) THEN path[2].n ELSE 0

\* list_files(save_directory, extensions=["sfs"])
list_files(fs) == {p \in DOMAIN fs : EndsWith(p, ".sfs")}

\* mutant: the new name gets the highest existing id, not the next one
Destination_HighestId(fs, source) ==
    NewFilename(source, _get_next_save_id(list_files(fs))[1])

Destination(fs, source) == NewFilename(source, _get_next_save_id(list_files(fs))[2])

\* ----------------------------------------------------------------- state
VARIABLES
    now,                    \* the wall clock
    config,                 \* the active QuicksaveConfig (the toggles used here)
    last_save_time,         \* QuicksaveUtility.last_save_time
    last_copied_save_name,  \* QuicksaveUtility.last_copied_save_name
    is_scheduled_save,      \* QuicksaveUtility.is_scheduled_save
    tick,                   \* main loop thread: pc and save_on_interval's current_time
    handler,                \* observer thread: pc and copy_save_to_new_file's locals
    files,                  \* the save directory: path -> modification time
    event_queue,            \* move events not yet dispatched to on_moved
    nwrites,                \* files written by the game so far
    lastPress,              \* time of the last F5 key-down sent
    lastCopy,               \* the last copy_file that completed
    ncopies,                \* copy_file calls that completed
    sincePress,             \* while the flag is pending: what has run since it was set
    lastTone,               \* the last tone the sound player was asked for
    lastId,                 \* the save id of the last copy_file that completed
    listing,                \* a directory listing handed to _get_next_save_id
    allocated,              \* what _get_next_save_id returned for it
    filename,               \* a file name handed to identify_save_type
    kind,                   \* what identify_save_type returned for it
    planned,                \* a source and the destination computed for it
    game,                   \* the game process: not running, unfocused or focused
    monitor,                \* ProcessMonitor's fields
    reminders,              \* "Still waiting" lines logged, and when the wait was last marked
    settings,               \* the active QuicksaveConfig (debug_log, save_directory)
    logger_level,           \* the logger's level
    watched,                \* the directory save_observer is scheduled on
    elsewhere,              \* the save directory that is not watched: path -> time
    reload_log,             \* what the last reload logged
    sound_system,           \* what SoundPlayer.play_beep is bound to
    observers,              \* config_observer and save_observer: started or joined
    format,                 \* the configuration file's format: JSON or TOML loader
    document,               \* the configuration file on disk
    loaded,                 \* what ConfigLoader.load last returned
    first,                  \* what the first load of the file returned
    quicksave_mtime,        \* polling utility: mtime of the quicksave slot's file
    last_copy_time,         \* polling utility: QuicksaveUtility.last_copy_time
    copier,                 \* polling utility: position in copy_quicksave_to_regular_save
    regular_saves           \* polling utility: the copies written, oldest first

coord == << last_save_time, last_copied_save_name, is_scheduled_save >>

env == << now, config, files, event_queue, nwrites >>

obs == << lastPress, lastCopy, ncopies, sincePress, lastTone, lastId >>

\* the arguments and results of the functions called on their own
calls == << listing, allocated, filename, kind, planned >>

\* ProcessMonitor's side of the main loop
poll == << monitor, reminders >>

\* the configuration watcher's side
watch == << settings, logger_level, watched, elsewhere, reload_log >>

\* SoundPlayer.setup_sound_system binds play_beep to pygame_beep when pygame
\* and numpy can be imported and to winsound_beep otherwise.
SoundSystems == {"pygame", "winsound"}

\* the polling utility of starfield_quicksave.py
polled == << quicksave_mtime, last_copy_time, copier, regular_saves >>

others == << game, monitor, reminders, settings, logger_level, watched,
             elsewhere, reload_log, sound_system, observers,
             format, document, loaded, first >>

aside == << others, polled >>

\* the configuration file and what was loaded from it
disk == << format, document, loaded, first >>

vars == << now, config, last_save_time, last_copied_save_name,
           is_scheduled_save, tick, handler, files, event_queue, nwrites,
           lastPress, lastCopy, ncopies, sincePress, lastTone, lastId,
           listing, allocated, filename, kind, planned,
           game, monitor, reminders, settings, logger_level, watched,
           elsewhere, reload_log, sound_system, observers,
           format, document, loaded, first,
           quicksave_mtime, last_copy_time, copier, regular_saves >>

Configs == [quicksave_save : BOOLEAN, quicksave_copy : BOOLEAN]

IdleTick == [pc |-> "sleep", current_time |-> NoTime]

IdleHandler == [pc |-> "idle", source |-> NoPath, destination |-> NoPath,
                directory |-> "", auto |-> FALSE, scheduled |-> FALSE]

NoCopy == [source |-> NoPath, tone |-> "none"]

NothingSince == [tick |-> FALSE, recon |-> FALSE]

\* the polling utility outside copy_quicksave_to_regular_save
IdleCopier == [pc |-> "sleep", attempt |-> 0, quicksave_time |-> NoTime]

\* sincePress after a step: reset when the flag is clear or was set by this
\* step, otherwise it adds what this step was.
Since(flag_after, set_now, is_tick, is_recon) ==
    IF ~flag_after \/ set_now THEN NothingSince
    ELSE [tick |-> sincePress.tick \/ is_tick, recon |-> sincePress.recon \/ is_recon]

\* QuicksaveConfig's defaults
DefaultConfig == [quicksave_save |-> TRUE, quicksave_copy |-> TRUE]

\* what is_game_running and is_game_in_foreground can find
GameStates == {"not_running", "unfocused", "focused"}

\* ProcessMonitor.reminder_default and reminder_increment, in minutes
ReminderDefault == 1
ReminderIncrement == 1

\* ProcessMonitor.__init__ (lines 32-42), constructed at time t
NewMonitor(t) ==
    [game_is_running |-> TRUE, game_in_foreground |-> TRUE,
     logging_paused |-> FALSE, last_logging_check |-> t,
     reminder_interval |-> ReminderDefault]

NoReminders == [count |-> 0, mark |-> NoTime]

\* the save directories a configuration file can name
Directories == {"Saves", "Saves2"}

Settings == [debug_log : BOOLEAN, save_directory : Directories]

\* QuicksaveConfig's defaults for those fields
DefaultSettings == [debug_log |-> FALSE, save_directory |-> "Saves"]

\* the logger level setup_logger and _update_logger_level choose
LevelFor(debug_log) == IF debug_log THEN "debug" ELSE "info"

\* setup_config_watcher and setup_save_watcher: both observers started
Started == [config_observer |-> "started", save_observer |-> "started"]

\* mutant: only the configuration observer is stopped and joined
AfterShutdown_ConfigOnly ==
    [config_observer |-> "joined", save_observer |-> "started"]

\* run's finally clause (lines 59-63): both observers stopped and joined
AfterShutdown == [config_observer |-> "joined", save_observer |-> "joined"]

\* A configuration file is a set of entries: the path of keys to a value,
\* and the value.  The fields QuicksaveConfig knows are save_directory and
\* debug_log (save_dir and enable_debug in the TOML loader).
Entry(path, value) == [path |-> path, value |-> value]

Fields == {"save_directory", "debug_log"}

\* QuicksaveConfig.config_structure: the TOML file's sections
Sections == {"paths", "saves", "cleanup", "logging"}

SectionOf(k) == IF k = "save_directory" THEN "paths" ELSE "logging"

\* QuicksaveConfig's default for a field the file does not give
DefaultOf(k) == IF k = "save_directory" THEN "Saves" ELSE "off"

\* the loader of src/config_loader.py reads quicksave.json, the loader of
\* src/src/starfieldsaver/config_loader.py reads starfieldsaver.toml
Formats == {"json", "toml"}

\* the configuration file is left out
NoDocument == format = "json" /\ document = {}

\* no load has returned yet
NotLoaded == [ok |-> FALSE, known |-> [k \in Fields |-> DefaultOf(k)],
              extra |-> {}]

\* a function that has not been called has returned nothing
NotCalled == "none"
NoIds == << >>
NoPlan == [source |-> NoPath, destination |-> NoPath]

\* QuicksaveUtility.__init__: the fields, both threads at rest, an empty
\* save directory
Constructed ==
    /\ now = 0
    /\ config = DefaultConfig
    /\ last_save_time = NoTime
    /\ last_copied_save_name = NoPath
    /\ is_scheduled_save = FALSE
    /\ tick = IdleTick
    /\ handler = IdleHandler
    /\ files = << >>
    /\ event_queue = << >>
    /\ nwrites = 0
    /\ lastPress = NoTime
    /\ lastCopy = NoCopy
    /\ ncopies = 0
    /\ sincePress = NothingSince
    /\ lastTone = "none"
    /\ lastId = 0
    /\ monitor = NewMonitor(0)
    /\ reminders = NoReminders
    /\ settings = DefaultSettings
    /\ logger_level = LevelFor(DefaultSettings.debug_log)
    /\ watched = DefaultSettings.save_directory
    /\ elsewhere = << >>
    /\ reload_log = "none"
    /\ observers = Started
    /\ loaded = NotLoaded
    /\ first = NotLoaded
    /\ quicksave_mtime = NoTime
    /\ last_copy_time = NoTime
    /\ copier = IdleCopier
    /\ regular_saves = << >>

Init ==
    /\ Constructed
    /\ NoDocument
    /\ game = "focused"
    /\ sound_system = "pygame"
    /\ listing = {}
    /\ allocated = NoIds
    /\ filename = NoPath
    /\ kind = NotCalled
    /\ planned = NoPlan


\* ------------------------------------------------------------ environment
\* The clock advances, up to a limit.
AdvanceUpTo(limit) ==
    /\ now < limit
    /\ now' = now + 1
    /\ UNCHANGED << config, files, event_queue, nwrites >>
    /\ UNCHANGED << coord, tick, handler, obs, calls, aside >>

Advance == AdvanceUpTo(MaxTime)

\* The game is started, closed, or gains or loses the foreground.
GameChanges ==
    /\ \E g \in GameStates \ {game} : game' = g
    /\ UNCHANGED << coord, env, tick, handler, obs, calls, polled, poll, watch >>
    /\ UNCHANGED << sound_system, observers, disk >>

\* A finished save file is moved into the save directory (by the game, for a
\* player's or the scheduler's quicksave, an autosave or a manual save); the
\* observer queues the move event for SaveFileHandler.on_moved.
GameWrite ==
    /\ game # "not_running"
    /\ nwrites < MaxWrites
    /\ Len(event_queue) < MaxQueue
    /\ \E p \in GamePaths :
         /\ files' = [q \in DOMAIN files \cup {p} |-> IF q = p THEN now ELSE files[q]]
         /\ event_queue' = Append(event_queue, [dest_path |-> p, is_directory |-> FALSE])
    /\ nwrites' = nwrites + 1
    /\ UNCHANGED << now, config >>
    /\ UNCHANGED << coord, tick, handler, obs, calls, aside >>

\* Something that is not a save file is moved inside the save directory.
OtherMove ==
    /\ Len(event_queue) < MaxQueue
    /\ nwrites < MaxWrites
    /\ \E e \in {[dest_path |-> TMP_1, is_directory |-> FALSE],
                 [dest_path |-> QS_0, is_directory |-> TRUE]} :
         event_queue' = Append(event_queue, e)
    /\ nwrites' = nwrites + 1
    /\ UNCHANGED << now, config, files >>
    /\ UNCHANGED << coord, tick, handler, obs, calls, aside >>

\* ------------------------------------------------------------- main loop
\* mutant: the interval must be exceeded, not just reached
IntervalElapsed_Strict(current_time, last) ==
    last = NoTime \/ current_time - last > QuicksaveInterval

\* save_on_interval's condition
IntervalElapsed(current_time, last) ==
    last = NoTime \/ current_time - last >= QuicksaveInterval

\* What the OS queries of one tick can do: both answer, psutil's process
\* listing raises, or the win32 foreground query raises.
Queries == {"ok", "process_list_raises", "foreground_raises"}

\* mutant: a running game is enough, focused or not
TickOutcome_IgnoresFocus(query, is_running, is_active) ==
    IF query = "process_list_raises" THEN "raises"
    ELSE IF ~is_running THEN "skips"
    ELSE IF query = "foreground_raises" THEN "raises"
    ELSE "reaches"

\* mutant: the foreground is asked about even when the game is not running
TickOutcome_IgnoresRunning(query, is_running, is_active) ==
    IF query # "ok" THEN "raises"
    ELSE IF is_active THEN "reaches"
    ELSE "skips"

\* _main_loop lines 71-76.  is_running, is_active: what is_game_running and
\* is_game_in_foreground find (the second is only asked when the first
\* holds).  Neither query catches what the OS call raises.
TickOutcome(query, is_running, is_active) ==
    IF query = "process_list_raises" THEN "raises"
    ELSE IF ~is_running THEN "skips"
    ELSE IF query = "foreground_raises" THEN "raises"
    ELSE IF is_active THEN "reaches"
    ELSE "skips"

\* the main loop thread in time.sleep(2) of the except clause (line 85)
AfterException == [pc |-> "cooldown", current_time |-> NoTime]

\* the main loop thread after an exception left _main_loop and run
StoppedTick == [pc |-> "stopped", current_time |-> NoTime]

\* play_error calls self.play_beep(500, 0.2, pause=0.1, vol=0.5).
\* winsound_beep(freq, duration) takes no pause or vol, so with play_beep
\* bound to it the call raises TypeError before any sound.
PlayErrorRaises == sound_system = "winsound"

\* _main_loop's except clause (lines 82-85): the error is logged and the
\* error tone played, then the loop sleeps before the next iteration.
\* When play_error itself raises, the exception leaves the while loop;
\* run's except clause calls play_error again, which raises out of run.
TickRaises ==
    IF PlayErrorRaises
    THEN /\ tick' = StoppedTick
         /\ UNCHANGED lastTone
    ELSE /\ lastTone' = "error"
         /\ tick' = AfterException

\* the tick ends at a continue, or with nothing to do
TickSkips == UNCHANGED << coord, tick, lastPress, sincePress, lastTone >>

\* save_on_interval up to and including keyboard.press(Key.f5): it reads
\* the clock, tests the interval, sets is_scheduled_save and presses F5.
\* pressRaises: the keyboard controller raises.
SaveOnIntervalStart ==
    IF IntervalElapsed(now, last_save_time)
    THEN /\ is_scheduled_save' = TRUE
         /\ sincePress' = NothingSince
         /\ UNCHANGED << last_save_time, last_copied_save_name >>
         /\ \E pressRaises \in BOOLEAN :
              IF pressRaises
              THEN /\ TickRaises
                   /\ UNCHANGED lastPress
              ELSE /\ tick' = [pc |-> "hold", current_time |-> now]
                   /\ lastPress' = now
                   /\ UNCHANGED lastTone
    ELSE /\ sincePress' = Since(is_scheduled_save, FALSE, TRUE, FALSE)
         /\ UNCHANGED << coord, tick, lastPress, lastTone >>

\* What one iteration of _main_loop does to the scheduler's fields, from
\* the queries to keyboard.press(Key.f5).
TickStep(outcome) ==
    IF outcome = "raises"
    THEN /\ TickRaises
         /\ UNCHANGED << coord, lastPress, sincePress >>
    ELSE IF outcome = "reaches" /\ config.quicksave_save
    THEN SaveOnIntervalStart
    ELSE TickSkips

\* One iteration of _main_loop whose OS queries answer, whatever they find.
MainLoopTick ==
    /\ tick.pc = "sleep"
    /\ \E outcome \in {TickOutcome("ok", is_running, is_active) :
                          is_running \in BOOLEAN, is_active \in BOOLEAN} :
         TickStep(outcome)
    /\ UNCHANGED << env, handler, lastCopy, ncopies, lastId, calls, aside >>

\* time.sleep(2) of the except clause returns and the loop goes round.
CooldownFinish ==
    /\ tick.pc = "cooldown"
    /\ tick' = IdleTick
    /\ UNCHANGED << coord, env, handler, obs, calls, aside >>

\* The rest of save_on_interval after time.sleep(0.2): release F5 and store
\* current_time.
SaveOnIntervalFinish ==
    /\ tick.pc = "hold"
    /\ tick' = IdleTick
    /\ last_save_time' = tick.current_time
    /\ UNCHANGED << last_copied_save_name, is_scheduled_save >>
    /\ UNCHANGED << env, handler, obs, calls, aside >>

\* ------------------------------------------------------- configuration
\* ConfigFileHandler.on_modified -> reload_config: ConfigLoader.reload
\* returns the configuration c read from disk.
ReloadConfig ==
    /\ \E c \in Configs \ {config} : config' = c
    /\ UNCHANGED << now, files, event_queue, nwrites >>
    /\ UNCHANGED << coord, tick, handler, obs, calls, aside >>

\* -------------------------------------------------------- observer thread
\* on_moved's filter: a file, not a directory, whose name ends in .sfs
IsGameSave(event) == ~event.is_directory /\ EndsWith(event.dest_path, ".sfs")

\* mutant: the pending flag claims the next save of any kind
IsScheduledQuicksave_AnyKind(save_type, scheduled_flag) == scheduled_flag

\* new_game_save_detected's test for the scheduled branch (line 117)
IsScheduledQuicksave(save_type, scheduled_flag) ==
    save_type = QUICKSAVE /\ scheduled_flag

\* mutant: a save as old as the last one passes too
IsNewerSave_OrEqual(save_time, last) == last = NoTime \/ save_time >= last

\* new_game_save_detected's timestamp test (line 127)
IsNewerSave(save_time, last) == last = NoTime \/ save_time > last

\* copy_save_to_new_file's de-duplication test (line 136)
AlreadyCopied(source, last_copied) == source = last_copied

\* The contents of config.save_directory, which copy_save_to_new_file lists
\* and copies into: the watched directory, or the other one.
SaveDirectory == IF settings.save_directory = watched THEN files ELSE elsewhere

\* a directory's contents after source (in the watched directory) is copied
\* to destination
WithCopy(fs, source, destination) ==
    [q \in DOMAIN fs \cup {destination} |->
        IF q = destination THEN files[source] ELSE fs[q]]

\* copy_save_to_new_file up to the call of _perform_file_copy: either the
\* source was already copied (returns False) or the handler goes on to copy.
StartCopy(source, auto, scheduled) ==
    IF AlreadyCopied(source, last_copied_save_name)
    THEN handler' = IdleHandler
    ELSE handler' = [pc |-> "copy", source |-> source,
                     destination |-> Destination(SaveDirectory, source),
                     directory |-> settings.save_directory,
                     auto |-> auto, scheduled |-> scheduled]

\* on_moved and new_game_save_detected for the next queued event, up to the
\* start of the byte copy.
HandleEvent ==
    /\ handler.pc = "idle"
    /\ event_queue # << >>
    /\ event_queue' = Tail(event_queue)
    /\ LET event == Head(event_queue)
           save_path == event.dest_path
           save_type == identify_save_type(save_path)
       IN  IF ~IsGameSave(event) \/ ~config.quicksave_copy
           THEN UNCHANGED << coord, handler, sincePress >>
           ELSE IF save_type = MANUAL
           THEN UNCHANGED << coord, handler, sincePress >>
           ELSE IF IsScheduledQuicksave(save_type, is_scheduled_save)
           THEN /\ StartCopy(save_path, TRUE, TRUE)
                \* a skipped copy returns at once and the flag is cleared
                /\ is_scheduled_save' =
                     IF AlreadyCopied(save_path, last_copied_save_name)
                     THEN FALSE ELSE is_scheduled_save
                /\ sincePress' = Since(is_scheduled_save', FALSE, FALSE, FALSE)
                /\ UNCHANGED << last_save_time, last_copied_save_name >>
           ELSE IF IsNewerSave(files[save_path], last_save_time)
           THEN /\ StartCopy(save_path, save_type = AUTOSAVE, FALSE)
                /\ sincePress' = Since(is_scheduled_save, FALSE, FALSE,
                                       AlreadyCopied(save_path, last_copied_save_name))
                /\ UNCHANGED coord
           ELSE /\ sincePress' = Since(is_scheduled_save, FALSE, FALSE, TRUE)
                /\ UNCHANGED << coord, handler >>
    /\ UNCHANGED << now, config, files, nwrites >>
    /\ UNCHANGED << tick, lastPress, lastCopy, ncopies, lastTone, lastId, calls, aside >>

\* mutant: a copy records the source but leaves the interval clock alone
AfterCopy_KeepTime(source) ==
    /\ last_copied_save_name' = source
    /\ UNCHANGED last_save_time

\* The state update at the end of _perform_file_copy (lines 176-178)
AfterCopy(source) ==
    /\ last_copied_save_name' = source
    /\ last_save_time' = files[source]

\* The tone _perform_file_copy plays (lines 171-174)
ToneFor(auto) == IF auto THEN "success" ELSE "notification"

\* mutant: the scheduled branch forgets to clear the flag
FlagAfterCopy_Keep(scheduled, flag) == flag

\* The flag once new_game_save_detected returns: the scheduled branch clears
\* it after copy_save_to_new_file (line 122), the other branch leaves it.
FlagAfterCopy(scheduled, flag) == IF scheduled THEN FALSE ELSE flag

\* mutant: the state update runs whatever happened before it
ReachesStateUpdate_Always(outcome) == TRUE

\* _perform_file_copy gets to lines 176-178 only if nothing before them
\* raised.
ReachesStateUpdate(outcome) == outcome = "ok"

\* _perform_file_copy and the return to new_game_save_detected.
\*   "copy_fails"   copy_file raises (the source is still being written)
\*   "notify_fails" the bytes are copied, then the tone (or the stat of the
\*                  source) raises before the state update
\*   "ok"           everything succeeds
\* An exception is caught in copy_save_to_new_file, which plays the error
\* tone and returns False.
PerformFileCopy ==
    /\ handler.pc = "copy"
    /\ \E outcome \in {"ok", "copy_fails", "notify_fails"} :
         /\ IF outcome = "copy_fails"
            THEN UNCHANGED << files, elsewhere, lastCopy, ncopies, lastId >>
            ELSE /\ IF handler.directory = watched
                    THEN /\ files' = WithCopy(files, handler.source,
                                              handler.destination)
                         /\ UNCHANGED elsewhere
                    ELSE /\ elsewhere' = WithCopy(elsewhere, handler.source,
                                                  handler.destination)
                         /\ UNCHANGED files
                 /\ lastCopy' = [source |-> handler.source,
                                 tone |-> IF outcome = "notify_fails" THEN "error"
                                          ELSE ToneFor(handler.auto)]
                 /\ ncopies' = ncopies + 1
                 /\ lastId' = SaveIdOf(handler.destination)
         /\ lastTone' = IF outcome = "ok" THEN ToneFor(handler.auto) ELSE "error"
         /\ IF ReachesStateUpdate(outcome)
            THEN AfterCopy(handler.source)
            ELSE UNCHANGED << last_save_time, last_copied_save_name >>
    /\ is_scheduled_save' = FlagAfterCopy(handler.scheduled, is_scheduled_save)
    /\ sincePress' = Since(is_scheduled_save', FALSE, FALSE, TRUE)
    /\ handler' = IdleHandler
    /\ UNCHANGED << now, config, event_queue, nwrites >>
    /\ UNCHANGED << tick, lastPress, calls, polled, game, poll >>
    /\ UNCHANGED << settings, logger_level, watched, reload_log, sound_system >>
    /\ UNCHANGED << observers, disk >>

\* ------------------------------------------- the functions on their own
\* Save<n>_<hex>.sfs
NumberedSave(n, hex) == << Lit("Save"), Num(n), Lit(hex), Lit(".sfs") >>

\* Names list_files can return: numbered saves, a name with no digits after
\* "Save", a numbered name without the eight hex digits, the quicksave slot
\* and an autosave.
ListedNames ==
    { NumberedSave(1, "_0A1B2C3D"), NumberedSave(2, "_4E5F6A7B"),
      NumberedSave(5, "_0A1B2C3D"), NumberedSave(9, "_0A1B2C3D"),
      NumberedSave(99, "_4E5F6A7B"),
      << Lit("Save"), Lit("X"), Lit("_0A1B2C3D"), Lit(".sfs") >>,
      << Lit("Save"), Num(3), Lit("_backup"), Lit(".sfs") >>,
      QS_0, AS_1 }

Listings == {S \in SUBSET ListedNames : Cardinality(S) <= MaxFiles}

\* Names handed to identify_save_type.
ClassifiedNames ==
    { QS_0, AS_1, MS_7, TMP_1,
      << Lit("Autosave"), Num(3), Lit("_0A1B2C3D"), Lit(".sfs") >>,
      NumberedSave(12, "_4E5F6A7B"),
      << Lit("Exitsave0"), Lit("_0A1B2C3D"), Lit(".sfs") >> }

InitCalls ==
    /\ Constructed
    /\ NoDocument
    /\ game = "focused"
    /\ sound_system = "pygame"
    /\ listing \in Listings
    /\ allocated = NoIds
    /\ filename \in ClassifiedNames
    /\ kind = NotCalled
    /\ planned = NoPlan

\* _get_next_save_id(save_files) is called and returns.
CallGetNextSaveId ==
    /\ allocated = NoIds
    /\ allocated' = _get_next_save_id(listing)
    /\ UNCHANGED << listing, filename, kind, planned >>
    /\ UNCHANGED << coord, env, tick, handler, obs, aside >>

\* identify_save_type(save_path) is called and returns.
CallIdentifySaveType ==
    /\ kind = NotCalled
    /\ kind' = identify_save_type(filename)
    /\ UNCHANGED << listing, allocated, filename, planned >>
    /\ UNCHANGED << coord, env, tick, handler, obs, aside >>

\* Quicksave0_backup.sfs: a quicksave the player has renamed
QS_backup == << Lit("Quicksave0"), Lit("_backup"), Lit(".sfs") >>

\* Paths that pass on_moved's filter and new_game_save_detected's test and
\* so reach copy_save_to_new_file.
CopiedNames ==
    {p \in GamePaths \cup {QS_backup} :
        /\ IsGameSave([dest_path |-> p, is_directory |-> FALSE])
        /\ identify_save_type(p) # MANUAL}

\* copy_save_to_new_file(source, ...) lists the save directory and computes
\* the destination (lines 140-152).
CallCopySaveToNewFile ==
    /\ planned = NoPlan
    /\ \E source \in CopiedNames :
         planned' = [source |-> source,
                     destination |-> Destination([p \in listing |-> 0], source)]
    /\ UNCHANGED << listing, allocated, filename, kind >>
    /\ UNCHANGED << coord, env, tick, handler, obs, aside >>

NextCalls == CallGetNextSaveId \/ CallIdentifySaveType \/ CallCopySaveToNewFile

SpecCalls == InitCalls /\ [][NextCalls]_vars

\* ------------------------------------------------ the main loop thread
\* mutant: the interval keeps growing past the ceiling
_increment_reminder_time_NoCeiling(interval) == interval + ReminderIncrement

\* _increment_reminder_time (lines 149-153)
_increment_reminder_time(interval) ==
    IF interval < ReminderMax THEN interval + ReminderIncrement ELSE interval

\* what is_game_running and is_game_in_foreground last found
SeenActive(m) == m.game_is_running /\ m.game_in_foreground

\* mutant: a reminder is due as soon as the interval is reached
ReminderDue_OrEqual(m, current_time) ==
    current_time - m.last_logging_check >= m.reminder_interval

\* check_logging_status's test for the "Still waiting" line (line 130)
ReminderDue(m, current_time) ==
    current_time - m.last_logging_check > m.reminder_interval

\* check_logging_status logs "Still waiting" (third branch)
Reminds(m, current_time) ==
    ~SeenActive(m) /\ m.logging_paused /\ ReminderDue(m, current_time)

\* check_logging_status starts a pause (second branch)
PauseBegins(m) == ~SeenActive(m) /\ ~m.logging_paused

\* check_logging_status (lines 118-133): the fields after the call
check_logging_status(m, current_time) ==
    IF SeenActive(m)
    THEN [m EXCEPT !.logging_paused = FALSE,
                   !.reminder_interval = ReminderDefault]
    ELSE IF ~m.logging_paused
    THEN [m EXCEPT !.logging_paused = TRUE,
                   !.last_logging_check = current_time,
                   !.reminder_interval = _increment_reminder_time(@)]
    ELSE IF ReminderDue(m, current_time)
    THEN [m EXCEPT !.last_logging_check = current_time,
                   !.reminder_interval = _increment_reminder_time(@)]
    ELSE m

\* is_game_running and is_game_in_foreground (lines 53-86): what they leave
\* in game_is_running and game_in_foreground.  A query that raises, or is
\* not reached, leaves its field alone.
AfterQueries(m, query, is_running, is_active) ==
    IF query = "process_list_raises" THEN m
    ELSE IF ~is_running THEN [m EXCEPT !.game_is_running = FALSE]
    ELSE IF query = "foreground_raises" THEN [m EXCEPT !.game_is_running = TRUE]
    ELSE [m EXCEPT !.game_is_running = TRUE, !.game_in_foreground = is_active]

\* One iteration of _main_loop (lines 68-78) with the OS queries doing
\* query: check_logging_status, is_game_running, is_game_in_foreground and
\* save_on_interval up to the key press.
TickWith(query) ==
    LET is_running == game # "not_running"
        is_active == game = "focused"
    IN  /\ tick.pc = "sleep"
        /\ monitor' = AfterQueries(check_logging_status(monitor, now),
                                   query, is_running, is_active)
        /\ reminders' =
             IF Reminds(monitor, now)
             THEN [count |-> reminders.count + 1, mark |-> now]
             ELSE IF PauseBegins(monitor)
             THEN [reminders EXCEPT !.mark = now]
             ELSE reminders
        /\ TickStep(TickOutcome(query, is_running, is_active))
        /\ observers' = IF tick' = StoppedTick THEN AfterShutdown ELSE observers
        /\ UNCHANGED << env, handler, lastCopy, ncopies, lastId, calls, polled,
                        game, watch, sound_system, disk >>

MonitorTick == \E query \in Queries : TickWith(query)

\* KeyboardInterrupt reaches the main thread wherever it is in _main_loop
\* (asleep, holding the key or cooling down): it is no Exception, so it
\* leaves the loop; run logs the exit and its finally clause stops and
\* joins the observers.
Interrupt ==
    /\ tick.pc # "stopped"
    /\ tick' = StoppedTick
    /\ observers' = AfterShutdown
    /\ UNCHANGED << coord, env, handler, obs, calls, polled, game, poll, watch,
                    sound_system, disk >>

InitMonitor ==
    /\ Constructed
    /\ NoDocument
    /\ game \in GameStates
    /\ sound_system \in SoundSystems
    /\ listing = {}
    /\ allocated = NoIds
    /\ filename = NoPath
    /\ kind = NotCalled
    /\ planned = NoPlan

NextMonitor ==
    \/ AdvanceUpTo(Horizon)
    \/ GameChanges
    \/ MonitorTick
    \/ SaveOnIntervalFinish
    \/ CooldownFinish
    \/ Interrupt

SpecMonitor == InitMonitor /\ [][NextMonitor]_vars

\* ------------------------------------------------- the observer threads
\* The thread of an Observer whose handler raised: watchdog's dispatch
\* loop has no except clause for it, so the thread has ended.
DeadHandler == [IdleHandler EXCEPT !.pc = "dead"]

\* on_moved and new_game_save_detected for the next queued event when
\* os.path.getmtime(save_path) raises (line 125: the file is gone again).
\* Neither new_game_save_detected nor on_moved has a try around it, so the
\* exception leaves on_moved.
HandleEventRaises ==
    /\ handler.pc = "idle"
    /\ event_queue # << >>
    /\ LET event == Head(event_queue)
           save_type == identify_save_type(event.dest_path)
       IN  /\ IsGameSave(event)
           /\ config.quicksave_copy
           /\ save_type # MANUAL
           /\ ~IsScheduledQuicksave(save_type, is_scheduled_save)
    /\ event_queue' = Tail(event_queue)
    /\ handler' = DeadHandler
    /\ UNCHANGED << now, config, files, nwrites >>
    /\ UNCHANGED << coord, tick, obs, calls, aside >>

\* What ConfigLoader.load finds in quicksave.json:
\*   "parsed"     a configuration
\*   "malformed"  text json.load rejects on every attempt, or data
\*                QuicksaveConfig cannot be built from
\*   "missing"    no file: load writes and returns the defaults
FileStates == {"parsed", "malformed", "missing"}

\* the configuration as the two variables hold it
Loaded(c, s) == [config |-> c, settings |-> s]

\* mutant: a failed load falls back to the defaults
ReloadResult_Defaults(found, current, parsed) ==
    IF found = "parsed" THEN parsed
    ELSE Loaded(DefaultConfig, DefaultSettings)

\* ConfigLoader.reload's return value (lines 86-100): what load returned,
\* or current_config when load raised.
ReloadResult(found, current, parsed) ==
    IF found = "parsed" THEN parsed
    ELSE IF found = "missing" THEN Loaded(DefaultConfig, DefaultSettings)
    ELSE current

\* ConfigFileHandler.on_modified -> reload_config -> ConfigLoader.reload.
\* The logger's level follows debug_log when a load changed it; a load that
\* raised is logged as a warning.  Nothing here touches save_observer.
ReloadConfigFile ==
    /\ \E found \in FileStates :
       \E parsed \in IF found = "parsed"
                     THEN {Loaded(c, s) : c \in Configs, s \in Settings}
                     ELSE {Loaded(config, settings)} :
         LET current == Loaded(config, settings)
             new_config == ReloadResult(found, current, parsed)
         IN  /\ config' = new_config.config
             /\ settings' = new_config.settings
             /\ logger_level' =
                  IF found # "malformed"
                     /\ new_config.settings.debug_log # settings.debug_log
                  THEN LevelFor(new_config.settings.debug_log)
                  ELSE logger_level
             /\ reload_log' = IF found = "malformed" THEN "warning" ELSE "reloaded"
    /\ UNCHANGED << now, files, event_queue, nwrites >>
    /\ UNCHANGED << coord, tick, handler, obs, calls, polled, game, poll >>
    /\ UNCHANGED << watched, elsewhere, sound_system, observers, disk >>

InitWatchers ==
    /\ Constructed
    /\ NoDocument
    /\ game \in GameStates
    /\ sound_system = "pygame"
    /\ listing = {}
    /\ allocated = NoIds
    /\ filename = NoPath
    /\ kind = NotCalled
    /\ planned = NoPlan

NextWatchers ==
    \/ GameChanges
    \/ GameWrite
    \/ HandleEvent
    \/ HandleEventRaises
    \/ PerformFileCopy
    \/ ReloadConfigFile

SpecWatchers == InitWatchers /\ [][NextWatchers]_vars

\* ------------------------------------------------ the configuration file
\* _process_config's first loop in the TOML loader: the entries of a known
\* section move up to the top level, everything else stays where it is.
\* The JSON loader has no sections.
Flattened(fmt, doc) ==
    IF fmt = "json" THEN doc
    ELSE { IF Len(e.path) >= 2 /\ e.path[1] \in Sections
           THEN Entry(Tail(e.path), e.value) ELSE e : e \in doc }

\* the entries _process_config pops as known attributes
KnownEntries(flat) == {e \in flat : Len(e.path) = 1 /\ e.path[1] \in Fields}

\* _process_config: the known attributes, with the defaults for the missing
\* ones, and extra_config, which is whatever is left
_process_config(fmt, doc) ==
    LET flat == Flattened(fmt, doc)
        known == KnownEntries(flat)
        given(k) == {e \in known : e.path = << k >>}
    IN  [ok |-> TRUE,
         known |-> [k \in Fields |->
                      IF given(k) = {} THEN DefaultOf(k)
                      ELSE (CHOOSE e \in given(k) : TRUE).value],
         extra |-> flat \ known]

\* _process_config's "updated": an attribute was missing from the file
Updated(fmt, doc) ==
    \E k \in Fields : \A e \in KnownEntries(Flattened(fmt, doc)) : e.path # << k >>

\* _save_config: the JSON loader writes the known attributes and merges
\* extra_config into the top level; the TOML loader writes the known
\* attributes into their sections and extra_config into a section "extra".
_save_config(fmt, cfg) ==
    IF fmt = "json"
    THEN {Entry(<< k >>, cfg.known[k]) : k \in Fields} \cup cfg.extra
    ELSE {Entry(<< SectionOf(k), k >>, cfg.known[k]) : k \in Fields}
         \cup {Entry(<< "extra" >> \o e.path, e.value) : e \in cfg.extra}

\* what a configuration file can hold besides save_directory: debug_log or
\* not, an unknown key at the top level, an unknown table, and an unknown
\* key inside the table "logging"
OptionalEntries(fmt) ==
    { Entry(IF fmt = "json" THEN << "debug_log" >> ELSE << "logging", "debug_log" >>,
            "on"),
      Entry(<< "theme" >>, "dark"),
      Entry(<< "plugin", "level" >>, "high"),
      Entry(<< "logging", "hint" >>, "terse") }

Documents(fmt) ==
    { {Entry(IF fmt = "json" THEN << "save_directory" >>
             ELSE << "paths", "save_directory" >>, d)} \cup extras :
        d \in Directories, extras \in SUBSET OptionalEntries(fmt) }

\* every path _save_config would write stays within MaxDepth keys
Saveable(fmt, cfg) == \A e \in _save_config(fmt, cfg) : Len(e.path) <= MaxDepth

\* ConfigLoader.load: the file is parsed and processed; when an attribute
\* was missing, _process_config writes the file back.
LoadConfig ==
    /\ LET cfg == _process_config(format, document)
       IN  /\ ~Updated(format, document) \/ Saveable(format, cfg)
           /\ loaded' = cfg
           /\ first' = IF first.ok THEN first ELSE cfg
           /\ document' = IF Updated(format, document)
                          THEN _save_config(format, cfg) ELSE document
    /\ UNCHANGED << coord, env, tick, handler, obs, calls, polled, game, poll, watch,
                    sound_system, observers, format >>

\* ConfigLoader._save_config(config) for the configuration last loaded
SaveConfig ==
    /\ loaded.ok
    /\ Saveable(format, loaded)
    /\ document' = _save_config(format, loaded)
    /\ UNCHANGED << coord, env, tick, handler, obs, calls, polled, game, poll, watch,
                    sound_system, observers, format, loaded, first >>

InitConfig ==
    /\ Constructed
    /\ format \in Formats
    /\ document \in Documents(format)
    /\ game = "focused"
    /\ sound_system = "pygame"
    /\ listing = {}
    /\ allocated = NoIds
    /\ filename = NoPath
    /\ kind = NotCalled
    /\ planned = NoPlan

NextConfig == LoadConfig \/ SaveConfig

SpecConfig == InitConfig /\ [][NextConfig]_vars

\* ----------------------------------------------------- polling utility
\* starfield_quicksave.py: the main loop itself copies the newest quicksave,
\* on every iteration that finds the game focused and quicksave_copy on.

\* max_attempts in copy_quicksave_to_regular_save
max_attempts == 2

\* _should_copy_quicksave (lines 442-444)
_should_copy_quicksave(quicksave_time, last) ==
    last = NoTime \/ quicksave_time > last

\* The end of one pass of the for loop after a None result or an exception
\* (lines 411-417): sleep and try again, or give up with the error tone.
EndOfAttempt(attempt) ==
    IF attempt < max_attempts - 1
    THEN /\ copier' = [pc |-> "retry", attempt |-> attempt + 1,
                       quicksave_time |-> NoTime]
         /\ UNCHANGED lastTone
    ELSE /\ copier' = IdleCopier
         /\ lastTone' = "error"

\* _attempt_quicksave_copy up to the call of perform_quicksave_copy (lines
\* 424-434): find_latest_quicksave_file reads the file's mtime; no file
\* gives None, an mtime that is not newer gives False.
StartAttempt(attempt) ==
    IF quicksave_mtime = NoTime
    THEN EndOfAttempt(attempt)
    ELSE IF _should_copy_quicksave(quicksave_mtime, last_copy_time)
    THEN /\ copier' = [pc |-> "perform", attempt |-> attempt,
                       quicksave_time |-> quicksave_mtime]
         /\ UNCHANGED lastTone
    ELSE /\ copier' = IdleCopier
         /\ UNCHANGED lastTone

\* The game replaces the quicksave slot's file (after F5 from the player or
\* from send_quicksave_key_to_game, which runs just before the copy).
GameQuicksave ==
    /\ game # "not_running"
    /\ now > quicksave_mtime
    /\ quicksave_mtime' = now
    /\ UNCHANGED << last_copy_time, copier, regular_saves >>
    /\ UNCHANGED << coord, env, tick, handler, obs, calls, others >>

\* An iteration of run reaches copy_quicksave_to_regular_save (line 336) and
\* makes its first attempt.
CopyTick ==
    /\ copier.pc = "sleep"
    /\ game = "focused"
    /\ config.quicksave_copy
    /\ Len(regular_saves) < MaxCopies
    /\ StartAttempt(0)
    /\ UNCHANGED << quicksave_mtime, last_copy_time, regular_saves >>
    /\ UNCHANGED << coord, env, tick, handler, calls, others >>
    /\ UNCHANGED << lastPress, lastCopy, ncopies, sincePress, lastId >>

\* time.sleep(1) returns and the for loop makes the next attempt.
RetryAttempt ==
    /\ copier.pc = "retry"
    /\ StartAttempt(copier.attempt)
    /\ UNCHANGED << quicksave_mtime, last_copy_time, regular_saves >>
    /\ UNCHANGED << coord, env, tick, handler, calls, others >>
    /\ UNCHANGED << lastPress, lastCopy, ncopies, sincePress, lastId >>

\* perform_quicksave_copy and the rest of _attempt_quicksave_copy (lines
\* 434-438, 514-530).  copy_win32_file copies whatever the file is now.
\*   "copy_fails"       shutil.copy2 raises
\*   "attributes_fail"  the bytes are copied, then chmod, SetFileAttributes
\*                      or the open raises
\*   "ok"               everything succeeds and last_copy_time is stored
PerformQuicksaveCopy ==
    /\ copier.pc = "perform"
    /\ \E outcome \in {"ok", "copy_fails", "attributes_fail"} :
         /\ regular_saves' =
              IF outcome = "copy_fails" THEN regular_saves
              ELSE Append(regular_saves, [time |-> quicksave_mtime,
                                          returned |-> outcome = "ok"])
         /\ IF outcome = "ok"
            THEN /\ last_copy_time' = copier.quicksave_time
                 /\ copier' = IdleCopier
                 /\ UNCHANGED lastTone
            ELSE /\ UNCHANGED last_copy_time
                 /\ EndOfAttempt(copier.attempt)
    /\ UNCHANGED quicksave_mtime
    /\ UNCHANGED << coord, env, tick, handler, calls, others >>
    /\ UNCHANGED << lastPress, lastCopy, ncopies, sincePress, lastId >>

InitPolling ==
    /\ Constructed
    /\ NoDocument
    /\ game = "focused"
    /\ sound_system = "pygame"
    /\ listing = {}
    /\ allocated = NoIds
    /\ filename = NoPath
    /\ kind = NotCalled
    /\ planned = NoPlan

NextPolling ==
    \/ Advance
    \/ GameQuicksave
    \/ CopyTick
    \/ RetryAttempt
    \/ PerformQuicksaveCopy

SpecPolling == InitPolling /\ [][NextPolling]_vars

\* ---------------------------------------------------------- specification
Next ==
    \/ Advance
    \/ GameWrite
    \/ OtherMove
    \/ ReloadConfig
    \/ MainLoopTick
    \/ SaveOnIntervalFinish
    \/ CooldownFinish
    \/ HandleEvent
    \/ PerformFileCopy

Spec == Init /\ [][Next]_vars


\* ------------------------------------------------------------ properties
\* The step in which on_moved runs for the event at the head of the queue.
HandlesEvent ==
    handler.pc = "idle" /\ event_queue # << >> /\ event_queue' = Tail(event_queue)

HeadPath == Head(event_queue).dest_path

\* The head event reaches new_game_save_detected.
HeadReconciled ==
    /\ ~Head(event_queue).is_directory
    /\ EndsWith(HeadPath, ".sfs")
    /\ config.quicksave_copy

IsQuicksaveName(path) == Contains(path, "Quicksave0")

IsAutosaveName(path) == ~Contains(path, "Quicksave0") /\ Contains(path, "Autosave")

\* The step in which the observer thread returns from _perform_file_copy.
CopyReturns == handler.pc = "copy" /\ handler'.pc = "idle"

\* The step in which save_on_interval sends the F5 key-down.
KeyPress == MainLoopTick /\ tick'.pc = "hold"

\* C1: a tick of the main loop with quicksaving enabled can press the
\* quicksave key if and only if last_save_time is unset or at least
\* quicksave_interval has passed since it; so while the interval has not
\* elapsed no tick presses the key.
C1_PressIffIntervalElapsed ==
    (tick.pc = "sleep" /\ config.quicksave_save)
        => ((ENABLED KeyPress)
              <=> (last_save_time = NoTime
                     \/ now - last_save_time >= QuicksaveInterval))

\* C1 witness: the key is down for a press that was due because the interval
\* had elapsed since a stored last_save_time.
C1_Witness ==
    /\ tick.pc = "hold"
    /\ last_save_time # NoTime
    /\ tick.current_time - last_save_time >= QuicksaveInterval

\* C2 (as amended): a quicksave-kind event handled while the flag is pending
\* is copied at most once: it is skipped when its path is the last copied
\* one, otherwise it goes to the copy as an automatic, scheduled save; a copy
\* that is made is of that file and never plays the player's notification
\* tone, a copy that is recorded plays the success tone; and the flag is
\* false when the handler returns.
C2_ScheduledQuicksaveAtMostOneAutomaticCopy ==
    [][ /\ (HandlesEvent /\ HeadReconciled /\ IsQuicksaveName(HeadPath)
              /\ is_scheduled_save)
            => /\ ncopies' = ncopies
               /\ IF HeadPath = last_copied_save_name
                  THEN handler'.pc = "idle" /\ ~is_scheduled_save'
                  ELSE /\ handler'.pc = "copy"
                       /\ handler'.source = HeadPath
                       /\ handler'.auto
                       /\ handler'.scheduled
        /\ (CopyReturns /\ handler.scheduled)
            => /\ ~is_scheduled_save'
               /\ ncopies' \in {ncopies, ncopies + 1}
               /\ ncopies' = ncopies + 1
                    => /\ lastCopy'.source = handler.source
                       /\ lastCopy'.tone # "notification"
               /\ last_copied_save_name' # last_copied_save_name
                    => /\ ncopies' = ncopies + 1
                       /\ lastCopy'.tone = "success"
      ]_vars

\* C2 witness: after a key-press, a quicksave has been copied with the
\* success tone (a player's quicksave gets the notification tone) and the
\* flag is clear.
C2_Witness ==
    /\ lastPress # NoTime
    /\ handler.pc = "idle"
    /\ ncopies = 1
    /\ IsQuicksaveName(lastCopy.source)
    /\ lastCopy.tone = "success"
    /\ last_copied_save_name = lastCopy.source
    /\ ~is_scheduled_save

\* C2 as stated: a quicksave-kind event handled while the flag is pending
\* always results in exactly one copy, with the success tone, and a clear flag.
C2_ScheduledQuicksaveExactlyOneCopy ==
    [][ /\ (HandlesEvent /\ HeadReconciled /\ IsQuicksaveName(HeadPath)
              /\ is_scheduled_save)
            => handler'.pc = "copy"
        /\ (CopyReturns /\ handler.scheduled)
            => /\ ncopies' = ncopies + 1
               /\ lastCopy'.tone = "success"
               /\ ~is_scheduled_save'
      ]_vars

\* C3: the same source path is never copied twice in a row.
C3_NeverCopiedTwiceInARow ==
    [][ ncopies' = ncopies + 1 => lastCopy'.source # lastCopy.source ]_vars

\* C4: with the flag clear, a quicksave or autosave event goes to the copy
\* only if the file's modification time is strictly newer than last_save_time
\* (or last_save_time is unset); an event whose file is as old as or older
\* than last_save_time changes nothing.
C4_StaleEventChangesNothing ==
    [][ (HandlesEvent /\ HeadReconciled /\ ~is_scheduled_save
           /\ (IsQuicksaveName(HeadPath) \/ IsAutosaveName(HeadPath)))
          => /\ handler'.pc = "copy"
                  => (last_save_time = NoTime \/ files[HeadPath] > last_save_time)
             /\ (last_save_time # NoTime /\ files[HeadPath] <= last_save_time)
                  => /\ handler' = handler
                     /\ coord' = coord
                     /\ files' = files
                     /\ ncopies' = ncopies
                     /\ lastCopy' = lastCopy
      ]_vars

\* C4 witness: the handler is copying, outside the scheduled branch, a file
\* that is strictly newer than a stored last_save_time.
C4_Witness ==
    /\ handler.pc = "copy"
    /\ ~handler.scheduled
    /\ last_save_time # NoTime
    /\ files[handler.source] > last_save_time


\* C5: once a scheduled quicksave has been copied, a later quicksave event
\* handled with the flag clear and a file newer than last_save_time goes to
\* the copy as a player's save, and the copy that is made leaves
\* last_save_time at the file's modification time.
C5_PlayerQuicksavePickedUp ==
    [][ /\ (HandlesEvent /\ HeadReconciled /\ IsQuicksaveName(HeadPath)
              /\ ~is_scheduled_save
              /\ IsQuicksaveName(lastCopy.source) /\ lastCopy.tone = "success"
              /\ last_save_time # NoTime /\ files[HeadPath] > last_save_time)
            => /\ handler'.pc = "copy"
               /\ ~handler'.auto
               /\ ~handler'.scheduled
        /\ (CopyReturns /\ ~handler.auto /\ ncopies' = ncopies + 1
              /\ IsQuicksaveName(lastCopy.source) /\ lastCopy.tone = "success")
            => /\ lastCopy'.tone = "notification"
               /\ last_save_time' = files[handler.source]
      ]_vars

\* C6 (as amended): while the flag is pending, a quicksave-kind event takes
\* the scheduled branch whatever its modification time (skipped if its path
\* is the last copied one, else copied as an automatic scheduled save); an
\* autosave-kind event leaves the flag pending and is copied only through
\* the timestamp comparison, as an automatic save outside the scheduled
\* branch, and the return from that copy leaves the flag as it is.
C6_PendingFlagConsumedByQuicksaveOnly ==
    [][ /\ (HandlesEvent /\ HeadReconciled /\ is_scheduled_save
              /\ IsQuicksaveName(HeadPath))
            => \/ /\ HeadPath = last_copied_save_name
                  /\ handler'.pc = "idle"
                  /\ ~is_scheduled_save'
               \/ /\ HeadPath # last_copied_save_name
                  /\ handler'.pc = "copy"
                  /\ handler'.scheduled
                  /\ handler'.auto
        /\ (HandlesEvent /\ HeadReconciled /\ is_scheduled_save
              /\ IsAutosaveName(HeadPath))
            => /\ is_scheduled_save'
               /\ handler'.pc = "copy"
                    => /\ ~handler'.scheduled
                       /\ handler'.auto
                       /\ (last_save_time = NoTime
                             \/ files[HeadPath] > last_save_time)
        /\ (CopyReturns /\ ~handler.scheduled)
            => is_scheduled_save' = is_scheduled_save
      ]_vars

\* C6 witness: an autosave has been copied and reconciled while the flag was
\* pending, and the flag is still pending.
C6_Witness ==
    /\ is_scheduled_save
    /\ sincePress.recon
    /\ IsAutosaveName(lastCopy.source)
    /\ last_copied_save_name = lastCopy.source
    /\ handler.pc = "idle"

\* C6 as stated: while the flag is pending, a quicksave- or autosave-kind
\* event is taken as the scheduler's own: unless it is skipped as already
\* copied (which clears the flag), it goes to the copy on the scheduled,
\* automatic branch.
C6_PendingFlagConsumedByAnyKind ==
    [][ (HandlesEvent /\ HeadReconciled /\ is_scheduled_save
           /\ (IsQuicksaveName(HeadPath) \/ IsAutosaveName(HeadPath)))
          => \/ handler'.pc = "idle" /\ ~is_scheduled_save'
             \/ handler'.pc = "copy" /\ handler'.scheduled /\ handler'.auto
      ]_vars

\* C7: an event for a name that is neither the quicksave slot nor an autosave
\* changes nothing: no copy, and last_save_time, last_copied_save_name and
\* the flag keep their values, pending flag or not.
C7_ManualSaveChangesNothing ==
    [][ (HandlesEvent /\ ~Contains(HeadPath, "Quicksave0")
           /\ ~Contains(HeadPath, "Autosave"))
          => /\ handler' = handler
             /\ coord' = coord
             /\ files' = files
             /\ ncopies' = ncopies
             /\ lastCopy' = lastCopy
      ]_vars

\* C7 witness: a manual save was written after the key-press and before the
\* quicksave, its event has been handled, and the quicksave is being copied
\* on the scheduled branch.
C7_Witness ==
    /\ handler.pc = "copy"
    /\ handler.scheduled
    /\ event_queue = << >>
    /\ lastPress # NoTime
    /\ MS_7 \in DOMAIN files
    /\ files[MS_7] > lastPress
    /\ files[handler.source] > files[MS_7]

\* C8: after a key-press the flag does not stay true once a scheduler tick
\* and a reconciliation of an observed save have both run since it was set.
C8_FlagClearedByNextTickOrReconciliation ==
    ~(lastPress # NoTime /\ is_scheduled_save
        /\ sincePress.tick /\ sincePress.recon)

\* C9: a key-press comes at least quicksave_interval after the previous one.
C9_PressesAtLeastIntervalApart ==
    [][ (KeyPress /\ lastPress # NoTime)
          => now - lastPress >= QuicksaveInterval ]_vars

\* C10: last_save_time never moves backward.
C10_LastSaveTimeNeverDecreases ==
    [][ last_save_time' >= last_save_time ]_vars

\* The step in which save_on_interval returns after a trigger.
TriggerReturns == tick.pc = "hold" /\ tick'.pc = "sleep"

\* C11: when save_on_interval returns from a trigger, the key was pressed at
\* the time the trigger read from the clock, the flag is true and
\* last_save_time is that time.
C11_TriggerSetsFlagAndTime ==
    [][ TriggerReturns
          => /\ lastPress = tick.current_time
             /\ last_save_time' = tick.current_time
             /\ is_scheduled_save'
      ]_vars

\* The step in which keyboard.press raises during a trigger: the only step
\* of the main loop that asks for a tone.
PressFails == MainLoopTick /\ lastTone' # lastTone

\* C12: a trigger whose key-press raises still counts as a schedule:
\* last_save_time becomes the time of the trigger and the flag is true, so
\* the interval has not elapsed for the next tick.
C12_FailedPressStillUpdatesTime ==
    [][ PressFails
          => /\ is_scheduled_save'
             /\ last_save_time' = now
             /\ ~IntervalElapsed(now', last_save_time')
      ]_vars

\* C13 (as amended): a copy of an autosave resets the interval clock like
\* any other copy: when the copy and its tone succeed, last_save_time is the
\* autosave's modification time and the autosave is the last copied save.
C13_AutosaveCopyResetsClock ==
    [][ (CopyReturns /\ IsAutosaveName(handler.source)
           /\ ncopies' = ncopies + 1 /\ lastTone' = "success")
          => /\ last_save_time' = files[handler.source]
             /\ last_copied_save_name' = handler.source
      ]_vars

\* C13 witness: after a key-press stored its time, an autosave written later
\* has been copied and last_save_time has moved on to the autosave's time.
C13_Witness ==
    /\ handler.pc = "idle"
    /\ tick.pc = "sleep"
    /\ IsAutosaveName(lastCopy.source)
    /\ lastCopy.tone = "success"
    /\ lastPress # NoTime
    /\ files[lastCopy.source] > lastPress
    /\ last_save_time = files[lastCopy.source]

\* C13 as stated: a copy of an autosave leaves last_save_time as it was.
C13_AutosaveCopyKeepsClock ==
    [][ (CopyReturns /\ IsAutosaveName(handler.source)
           /\ ncopies' = ncopies + 1)
          => last_save_time' = last_save_time
      ]_vars

C15_ToneFailureDoesNotAffectCopy ==
    [][ (CopyReturns /\ ncopies' = ncopies + 1)
          => /\ last_copied_save_name' = handler.source
             /\ last_save_time' = files[handler.source]
      ]_vars

\* C16: a failed attempt to copy is not the end of the copy: the handler
\* makes another attempt, and no error tone is played yet.  (The handler
\* starts a copy only from its rest, so every attempt it makes is a first
\* attempt.)
C16_FailedAttemptIsRetried ==
    [][ (handler.pc = "copy" /\ handler' # handler /\ ncopies' = ncopies)
          => /\ handler'.pc = "copy"
             /\ lastTone' = lastTone
      ]_vars

\* The listed names of the form Save<n>_<8 hex digits>, and their ids.
WellFormedNames ==
    { NumberedSave(1, "_0A1B2C3D"), NumberedSave(2, "_4E5F6A7B"),
      NumberedSave(5, "_0A1B2C3D"), NumberedSave(9, "_0A1B2C3D"),
      NumberedSave(99, "_4E5F6A7B") }

ListedIds == {p[2].n : p \in listing \cap WellFormedNames}

\* C17: with no numbered save in the listing _get_next_save_id returns
\* (0, 1); otherwise it returns the highest id and the highest id plus one
\* (so (2, 3) for Save1 and Save2, (9, 10) for Save9); names that are not
\* numbered saves do not change the result.
C17_NextIdIsHighestPlusOne ==
    allocated # NoIds
      => /\ ListedIds = {} => allocated = << 0, 1 >>
         /\ ListedIds # {}
              => allocated = << SetMax(ListedIds), SetMax(ListedIds) + 1 >>
         /\ allocated = _get_next_save_id(listing \cap WellFormedNames)

\* C17 witness: Save9 listed with two names that are not numbered saves has
\* been given (9, 10).
C17_Witness ==
    /\ listing = { NumberedSave(9, "_0A1B2C3D"),
                   << Lit("Save"), Lit("X"), Lit("_0A1B2C3D"), Lit(".sfs") >>,
                   << Lit("Save"), Num(3), Lit("_backup"), Lit(".sfs") >> }
    /\ allocated = << 9, 10 >>

\* C18: when the highest id is all nines but the id below it has fewer
\* digits (the highest was reached across a gap, as with Save5 and Save99),
\* the next id is not simply the highest plus one.
C18_GapJumpIsCorrected ==
    (/\ allocated # NoIds
     /\ ListedIds # {}
     /\ ListedIds \ {SetMax(ListedIds)} # {}
     /\ Digits(SetMax(ListedIds \ {SetMax(ListedIds)})) < Digits(SetMax(ListedIds))
     /\ Digits(SetMax(ListedIds) + 1) > Digits(SetMax(ListedIds)))
      => allocated[2] # SetMax(ListedIds) + 1

C21_PressOnlyWhenRunningAndFocused ==
    [][ /\ lastPress' # lastPress => game = "focused"
        /\ (MonitorTick /\ game # "focused")
             => /\ tick'.pc # "hold"
                /\ lastPress' = lastPress
                /\ is_scheduled_save' = is_scheduled_save
                /\ last_save_time' = last_save_time
      ]_vars

\* a tick found the game running but unfocused while a quicksave was due,
\* and nothing was pressed
C21_Witness ==
    /\ game = "unfocused"
    /\ monitor.game_is_running /\ ~monitor.game_in_foreground
    /\ config.quicksave_save
    /\ IntervalElapsed(now, last_save_time)
    /\ lastPress = NoTime
    /\ ~is_scheduled_save

\* C22: a save is copied only while the game is running and focused: an
\* event dispatched to on_moved while the game is not running or not focused
\* starts no copy, and no copy_file completes in those states.
C22_CopyOnlyWhenRunningAndFocused ==
    [][ /\ (HandlesEvent /\ game # "focused") => handler'.pc # "copy"
        /\ ncopies' # ncopies => game = "focused"
      ]_vars

\* C23: the tick handler and the event handler are serialized: while
\* save_on_interval is between setting the flag and storing last_save_time
\* the event handler takes no step, and while the event handler is between
\* its decision and its state update the tick handler takes no step.
C23_HandlersRunOneAtATime ==
    [][ /\ tick.pc = "hold" => handler' = handler
        /\ handler.pc = "copy" => tick' = tick
      ]_vars

\* C24: a reload that fails on a malformed file leaves the configuration as
\* it was in every field and the logger's level as it was; all it does is
\* log a warning.  In particular it does not fall back to the defaults.
C24_FailedReloadKeepsConfig ==
    [][ (ReloadConfigFile /\ reload_log' = "warning")
          => /\ config' = config
             /\ settings' = settings
             /\ logger_level' = logger_level
             /\ UNCHANGED << coord, tick, handler, watched >>
      ]_vars

\* a reload failed after an earlier one had moved every modelled field away
\* from its default
C24_Witness ==
    /\ reload_log = "warning"
    /\ config.quicksave_save # DefaultConfig.quicksave_save
    /\ config.quicksave_copy # DefaultConfig.quicksave_copy
    /\ settings.debug_log # DefaultSettings.debug_log
    /\ settings.save_directory # DefaultSettings.save_directory
    /\ logger_level = "debug"

\* C25: after a successful reload that changes save_directory, the save
\* observer watches the new directory: whenever the last reload succeeded,
\* the watched directory is the configured one.
C25_WatchFollowsSaveDirectory ==
    reload_log = "reloaded" => watched = settings.save_directory

\* C26: an exception raised inside a tick is caught at the tick boundary:
\* the error tone is played and the loop sleeps its cool-down, after which
\* the next tick can run.  No tick leaves the main loop thread stopped.
C26_FailingTickDoesNotEndLoop ==
    /\ [][ (MonitorTick /\ tick'.pc \notin {"sleep", "hold"})
             => /\ tick' = AfterException
                /\ lastTone' = "error"
         ]_vars
    /\ [](tick.pc = "cooldown" => ENABLED CooldownFinish)

\* C27: an exception raised while one save event is handled (the file is
\* gone before its modification time is read) is caught at the boundary of
\* the event handler: it never ends the observer thread, so later events
\* are still dispatched.
C27_HandlerExceptionStaysInHandler == handler.pc # "dead"

\* C28: an OS query that fails during a tick degrades to "not active": the
\* tick ends like one that found the game inactive, with no key press, no
\* error tone and no cool-down, and the monitor does not see the game as
\* running and focused.  (Stated for the build whose tones play.)
C28_FailedQueryMeansNotActive ==
    [][ \A query \in Queries \ {"ok"} :
          (TickWith(query) /\ ~PlayErrorRaises)
            => /\ tick' = IdleTick
               /\ lastPress' = lastPress
               /\ lastTone' = lastTone
               /\ ~SeenActive(monitor')
      ]_vars

\* C29: the reminder interval is back at its default at the end of the
\* first tick that finds the game running and focused after a period in
\* which it was not.
C29_IntervalResetOnFirstActiveTick ==
    [][ (TickWith("ok") /\ game = "focused" /\ ~SeenActive(monitor))
          => monitor'.reminder_interval = ReminderDefault
      ]_vars

\* C30: while the game is not active, reminders are rate-limited: a tick
\* logs "Still waiting" only if more than the current reminder_interval has
\* passed since the previous reminder or, before the first one, since the
\* pause began; a tick logs at most one reminder.
C30_RemindersRateLimited ==
    [][ reminders'.count # reminders.count
          => /\ reminders'.count = reminders.count + 1
             /\ reminders.mark # NoTime
             /\ now - reminders.mark > monitor.reminder_interval
             /\ MonitorTick
      ]_vars

\* two reminders have been logged in one pause, the second while the
\* interval stood at its second increment
C30_Witness ==
    /\ reminders.count = 2
    /\ monitor.logging_paused
    /\ monitor.reminder_interval > ReminderDefault + ReminderIncrement

C32_ShutdownJoinsBothObservers ==
    tick.pc = "stopped"
      => /\ observers.config_observer = "joined"
         /\ observers.save_observer = "joined"

\* run is over after an interrupt that came during the key hold
C32_Witness ==
    /\ tick.pc = "stopped"
    /\ is_scheduled_save
    /\ lastPress # NoTime
    /\ last_save_time = NoTime

\* C33: unknown configuration fields survive a round trip: every load after
\* the first, with any number of saves and loads in between, returns the
\* known fields and the unrecognized fields (keys, nesting, values) that the
\* first load returned.
C33_UnknownFieldsRoundTrip == loaded = first

\* C34: when the quicksave written after a scheduled key press is copied
\* while save_on_interval is still holding the key, the return of
\* save_on_interval leaves what a later handling would have left: the flag
\* false and last_save_time the later of the tick's time and the copied
\* file's modification time.
C34_CopyDuringHoldIsNotLost ==
    [][ ( /\ TriggerReturns
          /\ ~is_scheduled_save
          /\ last_copied_save_name # NoPath
          /\ IsQuicksaveName(last_copied_save_name)
          /\ files[last_copied_save_name] >= tick.current_time
          /\ last_save_time = files[last_copied_save_name] )
          => /\ ~is_scheduled_save'
             /\ last_save_time' =
                  IF files[last_copied_save_name] > tick.current_time
                  THEN files[last_copied_save_name] ELSE tick.current_time
      ]_vars

\* C35: new_game_save_detected clears a pending flag only when it has copied
\* the observed file: an event skipped as already copied, or whose copy
\* fails, leaves the flag pending.
C35_FlagClearedOnlyByCopy ==
    [][ ( /\ HandlesEvent \/ CopyReturns
          /\ is_scheduled_save
          /\ ~is_scheduled_save' )
          => ncopies' = ncopies + 1
      ]_vars


\* C36: a copy never overwrites anything: the destination computed for a
\* source that reaches copy_save_to_new_file differs from the source and
\* from every file that was in the save directory when the id was allocated,
\* whether or not the id scan recognises that file's name.
C36_DestinationIsFresh ==
    planned # NoPlan
      => /\ planned.destination # planned.source
         /\ planned.destination \notin listing


\* C37: whenever the listing holds at least one numbered save, the next id
\* _get_next_save_id returns is greater than every id in the listing, at a
\* digit rollover as anywhere else, so it is never an id in use nor one
\* below the highest.
C37_NextIdAboveEveryId ==
    (allocated # NoIds /\ ListedIds # {})
      => /\ \A id \in ListedIds : allocated[2] > id
         /\ allocated[1] \in ListedIds

\* C37 witness: with Save5 and Save99 listed, where the next id has one
\* more digit than the highest, the function has returned 100.
C37_Witness ==
    /\ listing = { NumberedSave(5, "_0A1B2C3D"), NumberedSave(99, "_4E5F6A7B") }
    /\ allocated = << 99, 100 >>


\* C38: a tick that presses nothing because the game is not running or not
\* focused, quicksaving is disabled or the interval has not elapsed leaves
\* last_save_time, is_scheduled_save and last_copied_save_name as they were;
\* an event for a directory or for a path that does not end in .sfs, or one
\* handled while copying is disabled, leaves them as they were too and
\* starts no copy.
\* (The tick's half is written from the other side: a step that changes
\* one of them or presses the key is not such a tick.)
C38_DeclinedTickAndFilteredEventChangeNothing ==
    [][ /\ ( /\ tick.pc = "sleep"
             /\ \/ is_scheduled_save' # is_scheduled_save
                \/ last_save_time' # last_save_time
                \/ last_copied_save_name' # last_copied_save_name
                \/ lastPress' # lastPress )
             => ~ \E is_running, is_active \in BOOLEAN :
                    /\ \/ ~is_running
                       \/ ~is_active
                       \/ ~config.quicksave_save
                       \/ ~IntervalElapsed(now, last_save_time)
                    /\ TickStep(TickOutcome("ok", is_running, is_active))
        /\ ( /\ handler.pc = "idle"
             /\ event_queue # << >>
             /\ \/ ~config.quicksave_copy
                \/ Head(event_queue).is_directory
                \/ ~EndsWith(HeadPath, ".sfs")
             /\ event_queue' = Tail(event_queue) )
             => /\ is_scheduled_save' = is_scheduled_save
                /\ last_save_time' = last_save_time
                /\ last_copied_save_name' = last_copied_save_name
                /\ handler' = IdleHandler
                /\ ncopies' = ncopies
                /\ files' = files
      ]_vars

\* C38 witness: the key has been pressed, a later tick has declined to press
\* it again and an event for something other than a save file has been
\* handled; the flag is still set and nothing has been copied.
C38_Witness ==
    /\ is_scheduled_save
    /\ sincePress.tick
    /\ nwrites = 1
    /\ DOMAIN files = {}
    /\ event_queue = << >>
    /\ handler.pc = "idle"
    /\ ncopies = 0


\* the copies perform_quicksave_copy has reported as made
ReturnedCopies == {i \in DOMAIN regular_saves : regular_saves[i].returned}

\* C39: in the polling utility the quicksave is copied only when the mtime
\* found for it is newer than last_copy_time, and last_copy_time changes
\* only in the step of a successful copy, to a later time; so no quicksave
\* is copied twice while its mtime stays the same, whatever ticks, failed
\* attempts and retries there are.
C39_QuicksaveCopiedOncePerMtime ==
    /\ [][ /\ regular_saves' # regular_saves
             => _should_copy_quicksave(copier.quicksave_time, last_copy_time)
           /\ last_copy_time' # last_copy_time
             => /\ Len(regular_saves') = Len(regular_saves) + 1
                /\ regular_saves'[Len(regular_saves')].returned
                /\ last_copy_time' > last_copy_time
         ]_vars
    /\ [](\A i, j \in ReturnedCopies :
             regular_saves[i].time = regular_saves[j].time => i = j)

====
